---- MODULE Spec2Model ----
(***************************************************************************)
(* Holder Radar v1 (src/app.py): the scoring / normalisation pipeline.     *)
(*                                                                         *)
(* Python values are modelled as records [k, n, d]:                        *)
(*   k = "num"    a finite number, the exact rational n/d (d > 0, reduced) *)
(*   k = "nan"    float NaN (a missing value of a numeric DataFrame column)*)
(*   k = "none"   None (a missing value of an object column / absent key)  *)
(*   k = "str"    a non-empty string that float() rejects, e.g. "abc"      *)
(*   k = "numstr" a string that float() parses to n/d, e.g. "12.5"         *)
(*   k = "raise"  no value: the evaluation raised an exception             *)
(* Arithmetic on "num" is exact rational arithmetic; binary rounding of    *)
(* IEEE doubles is not modelled.  Infinities are not modelled.             *)
(***************************************************************************)
EXTENDS Integers, Sequences, FiniteSets, TLC

VARIABLES pc,                      \* position of the component under check
          x, xmin, xmax, res,      \* scale: arguments and result
          sym, name, excl,         \* is_stable_or_wrapped: row fields, result
          row, out, loc,           \* one asset row, its five scores, locals
          today,                   \* date.today() as a proleptic ordinal
          markets_all, markets,    \* load_data: steps 1 and 3
          rows, faults,            \* fetch_fundamentals_for_ids: rows, outcomes
          df, prev                 \* load_data: scored frame, previous frame

vars == <<pc, x, xmin, xmax, res, sym, name, excl, row, out, loc, today,
          markets_all, markets, rows, faults, df, prev>>

----------------------------------------------------------------------------
(* Values and Python arithmetic                                            *)

RECURSIVE GCD(_, _)
GCD(a, b) == IF b = 0 THEN a ELSE GCD(b, a % b)

Abs(a) == IF a < 0 THEN -a ELSE a

\* the reduced fraction n/d, d # 0
R(n, d) ==
    LET g == GCD(Abs(n), Abs(d))
        s == IF d < 0 THEN -1 ELSE 1
    IN  [k |-> "num", n |-> (s * n) \div g, d |-> (s * d) \div g]

I(n) == [k |-> "num", n |-> n, d |-> 1]

NaN    == [k |-> "nan",   n |-> 0, d |-> 1]
NoneV  == [k |-> "none",  n |-> 0, d |-> 1]
StrV   == [k |-> "str",   n |-> 0, d |-> 1]
Raise  == [k |-> "raise", n |-> 0, d |-> 1]
NumStr(n, d) == [k |-> "numstr", n |-> n, d |-> d]
Unset  == [k |-> "unset", n |-> 0, d |-> 1]

IsNum(v)   == v.k = "num"
IsFloat(v) == v.k \in {"num", "nan"}

\* comparisons of two "num" values
Lt(a, b) == a.n * b.d < b.n * a.d
Le(a, b) == a.n * b.d <= b.n * a.d

\* a + b, a - b, a * b, a / b of two "num" values (lcm-based to keep the
\* intermediate integers small)
RAdd(a, b) ==
    LET g == GCD(a.d, b.d)
    IN  R(a.n * (b.d \div g) + b.n * (a.d \div g), a.d * (b.d \div g))
RNeg(a) == [k |-> "num", n |-> -a.n, d |-> a.d]
RSub(a, b) == RAdd(a, RNeg(b))
RMul(a, b) ==
    LET g1 == GCD(Abs(a.n), b.d)
        g2 == GCD(Abs(b.n), a.d)
    IN  R((a.n \div g1) * (b.n \div g2), (a.d \div g2) * (b.d \div g1))
RDiv(a, b) == RMul(a, R(b.d, b.n))

\* Python binary operators +, -, *, / on operands that may be non-floats:
\* an operand that already raised propagates, a str or None operand is a
\* TypeError, NaN is contagious, x / 0 is a ZeroDivisionError.
PyArith(op, a, b) ==
    IF a.k = "raise" \/ b.k = "raise" THEN Raise
    ELSE IF ~IsFloat(a) \/ ~IsFloat(b) THEN Raise
    ELSE IF op = "/" /\ IsNum(b) /\ b.n = 0 THEN Raise
    ELSE IF a.k = "nan" \/ b.k = "nan" THEN NaN
    ELSE CASE op = "+" -> RAdd(a, b)
           [] op = "-" -> RSub(a, b)
           [] op = "*" -> RMul(a, b)
           [] op = "/" -> RDiv(a, b)

PyAdd(a, b) == PyArith("+", a, b)
PySub(a, b) == PyArith("-", a, b)
PyMul(a, b) == PyArith("*", a, b)
PyDiv(a, b) == PyArith("/", a, b)

\* pd.isna(v)
isna(v) == v.k \in {"nan", "none"}

\* bool(v): None and 0 are falsy; NaN and non-empty strings are truthy
Truthy(v) ==
    CASE v.k = "none" -> FALSE
      [] v.k = "num"  -> v.n # 0
      [] OTHER        -> TRUE

\* v == 0
EqZero(v) == v.k = "num" /\ v.n = 0

\* float(v): Raise stands for the TypeError / ValueError of float()
PyFloat(v) ==
    CASE v.k = "num"    -> v
      [] v.k = "nan"    -> v
      [] v.k = "numstr" -> R(v.n, v.d)
      [] OTHER          -> Raise

\* a < b, a > b ... of Python on floats: every comparison with NaN is False
PyLt(a, b) == IsNum(a) /\ IsNum(b) /\ Lt(a, b)
PyGt(a, b) == PyLt(b, a)
PyLe(a, b) == IsNum(a) /\ IsNum(b) /\ Le(a, b)
PyGe(a, b) == PyLe(b, a)

----------------------------------------------------------------------------
(* HELPERS                                                                 *)

\* np.clip(v, 0.0, 1.0)
clip01(v) == IF Lt(v, I(0)) THEN I(0) ELSE IF Lt(I(1), v) THEN I(1) ELSE v

scale_noclip(a, lo, hi) ==
    LET v == PyFloat(a)
    IN  IF v.k = "raise" THEN R(1, 2)
        ELSE IF isna(v) \/ hi = lo THEN R(1, 2)
        ELSE RDiv(RSub(v, lo), RSub(hi, lo))

scale(a, lo, hi) ==
    LET v == PyFloat(a)
    IN  IF v.k = "raise" THEN R(1, 2)
        ELSE IF isna(v) \/ hi = lo THEN R(1, 2)
        ELSE clip01(RDiv(RSub(v, lo), RSub(hi, lo)))

----------------------------------------------------------------------------
(* Strings.  A Python str is a sequence of one-character strings; a field   *)
(* that may hold a str or None is a record [k, s] with k = "str" / "none". *)

Str(s)  == [k |-> "str",  s |-> s]
NoneS   == [k |-> "none", s |-> <<>>]
NaNS    == [k |-> "nan",  s |-> <<>>]

LowerMap ==
    "A" :> "a" @@ "B" :> "b" @@ "C" :> "c" @@ "D" :> "d" @@ "E" :> "e" @@
    "F" :> "f" @@ "G" :> "g" @@ "H" :> "h" @@ "I" :> "i" @@ "J" :> "j" @@
    "K" :> "k" @@ "L" :> "l" @@ "M" :> "m" @@ "N" :> "n" @@ "O" :> "o" @@
    "P" :> "p" @@ "Q" :> "q" @@ "R" :> "r" @@ "S" :> "s" @@ "T" :> "t" @@
    "U" :> "u" @@ "V" :> "v" @@ "W" :> "w" @@ "X" :> "x" @@ "Y" :> "y" @@
    "Z" :> "z"
UpperMap ==
    "a" :> "A" @@ "b" :> "B" @@ "c" :> "C" @@ "d" :> "D" @@ "e" :> "E" @@
    "f" :> "F" @@ "g" :> "G" @@ "h" :> "H" @@ "i" :> "I" @@ "j" :> "J" @@
    "k" :> "K" @@ "l" :> "L" @@ "m" :> "M" @@ "n" :> "N" @@ "o" :> "O" @@
    "p" :> "P" @@ "q" :> "Q" @@ "r" :> "R" @@ "s" :> "S" @@ "t" :> "T" @@
    "u" :> "U" @@ "v" :> "V" @@ "w" :> "W" @@ "x" :> "X" @@ "y" :> "Y" @@
    "z" :> "Z"
\* str.lower() and str.upper(), character by character
LowerChar(c) == IF c \in DOMAIN LowerMap THEN LowerMap[c] ELSE c
UpperChar(c) == IF c \in DOMAIN UpperMap THEN UpperMap[c] ELSE c
lower(s) == [i \in 1..Len(s) |-> LowerChar(s[i])]
upper(s) == [i \in 1..Len(s) |-> UpperChar(s[i])]

W_None == <<"N", "o", "n", "e">>
W_nan == <<"n", "a", "n">>

\* str(v) of a field value: a str is itself, None is "None", NaN is "nan"
PyStr(v) == IF v.k = "str" THEN v.s ELSE IF v.k = "none" THEN W_None ELSE W_nan

\* needle in hay
Contains(hay, needle) ==
    \E i \in 1..(Len(hay) - Len(needle) + 1) :
        SubSeq(hay, i, i + Len(needle) - 1) = needle

stable_syms ==
    { <<"u", "s", "d", "t">>,
      <<"u", "s", "d", "c">>,
      <<"b", "u", "s", "d">>,
      <<"d", "a", "i">>,
      <<"t", "u", "s", "d">>,
      <<"u", "s", "d", "d">>,
      <<"u", "s", "d", "e">>,
      <<"g", "u", "s", "d">>,
      <<"u", "s", "d", "p">>,
      <<"f", "d", "u", "s", "d">>,
      <<"e", "u", "s", "d">>,
      <<"e", "u", "r", "t">>,
      <<"e", "u", "r", "o", "c">>,
      <<"s", "u", "s", "d">>,
      <<"l", "u", "s", "d">>,
      <<"f", "r", "a", "x">>,
      <<"p", "a", "i">>,
      <<"u", "s", "d", "x">> }
wrapped_syms ==
    { <<"w", "b", "t", "c">>,
      <<"w", "e", "t", "h">>,
      <<"w", "s", "t", "e", "t", "h">>,
      <<"w", "s", "o", "l">>,
      <<"w", "a", "v", "a", "x">> }
W_wrapped == <<"w", "r", "a", "p", "p", "e", "d">>
W_staked_ether == <<"s", "t", "a", "k", "e", "d", " ", "e", "t", "h", "e", "r">>
W_staked_eth == <<"s", "t", "a", "k", "e", "d", " ", "e", "t", "h">>

is_stable_or_wrapped_nolower(r) ==
    LET s  == PyStr(r.symbol)
        nm == PyStr(r.name)
    IN  IF s \in stable_syms THEN TRUE
        ELSE IF Contains(nm, W_wrapped) THEN TRUE
        ELSE IF Contains(nm, W_staked_ether) \/ Contains(nm, W_staked_eth) THEN TRUE
        ELSE IF s \in wrapped_syms THEN TRUE
        ELSE FALSE

is_stable_or_wrapped(r) ==
    LET s  == lower(PyStr(r.symbol))
        nm == lower(PyStr(r.name))
    IN  IF s \in stable_syms THEN TRUE
        ELSE IF Contains(nm, W_wrapped) THEN TRUE
        ELSE IF Contains(nm, W_staked_ether) \/ Contains(nm, W_staked_eth) THEN TRUE
        ELSE IF s \in wrapped_syms THEN TRUE
        ELSE FALSE

----------------------------------------------------------------------------
(* years_since: "YYYY-MM-DD" -> elapsed years.  datetime.date is modelled   *)
(* by its proleptic Gregorian ordinal (date.toordinal).                    *)

DigitVal ==
    "0" :> 0 @@ "1" :> 1 @@ "2" :> 2 @@ "3" :> 3 @@ "4" :> 4 @@
    "5" :> 5 @@ "6" :> 6 @@ "7" :> 7 @@ "8" :> 8 @@ "9" :> 9

\* genesis_str.split("-")
RECURSIVE SplitDash(_, _, _)
SplitDash(s, cur, acc) ==
    IF s = <<>> THEN Append(acc, cur)
    ELSE IF Head(s) = "-" THEN SplitDash(Tail(s), <<>>, Append(acc, cur))
    ELSE SplitDash(Tail(s), Append(cur, Head(s)), acc)
split(s) == SplitDash(s, <<>>, <<>>)

\* int(p) of a part: decimal digits only here (signs, blanks and "_" do not
\* occur in the inputs); -1 stands for the ValueError of int()
RECURSIVE DigitsValue(_, _)
DigitsValue(p, acc) ==
    IF p = <<>> THEN acc ELSE DigitsValue(Tail(p), 10 * acc + DigitVal[Head(p)])
int(p) ==
    IF p # <<>> /\ \A i \in 1..Len(p) : p[i] \in DOMAIN DigitVal
    THEN DigitsValue(p, 0) ELSE -1

IsLeap(y) == (y % 4 = 0) /\ ((y % 100 # 0) \/ (y % 400 = 0))
DaysInMonth(y, m) ==
    IF m = 2 THEN (IF IsLeap(y) THEN 29 ELSE 28)
    ELSE IF m \in {4, 6, 9, 11} THEN 30 ELSE 31
RECURSIVE DaysBeforeMonth(_, _)
DaysBeforeMonth(y, m) ==
    IF m = 1 THEN 0 ELSE DaysBeforeMonth(y, m - 1) + DaysInMonth(y, m - 1)
DaysBeforeYear(y) ==
    (y - 1) * 365 + ((y - 1) \div 4) - ((y - 1) \div 100) + ((y - 1) \div 400)

\* date(y, m, d) is a ValueError outside these ranges
ValidDate(y, m, d) ==
    /\ y >= 1 /\ y <= 9999
    /\ m >= 1 /\ m <= 12
    /\ d >= 1 /\ d <= DaysInMonth(y, m)
\* date(y, m, d).toordinal()
toordinal(y, m, d) == DaysBeforeYear(y) + DaysBeforeMonth(y, m) + d

years_since(genesis_str, now) ==
    IF genesis_str.k # "str" \/ genesis_str.s = <<>> THEN I(0)
    ELSE LET parts == split(genesis_str.s)
         IN  IF Len(parts) < 3 THEN I(0)
             ELSE LET y == int(parts[1])
                      m == int(parts[2])
                      d == int(parts[3])
                  IN  IF y < 0 \/ m < 0 \/ d < 0 THEN I(0)
                      ELSE IF ~ValidDate(y, m, d) THEN I(0)
                      ELSE LET days == now - toordinal(y, m, d)
                               yrs  == R(days * 4, 1461)
                           IN  IF Lt(yrs, I(0)) THEN I(0) ELSE yrs

----------------------------------------------------------------------------
(* SCORES.  A row is a record of the fields the score functions read;      *)
(* row.get(f) is r.f (a missing key and a None value are both NoneV).      *)

\* -v
PyNeg(v) == IF v.k = "num" THEN RNeg(v) ELSE IF v.k = "nan" THEN NaN ELSE Raise

rank_score(r) ==
    LET rank0 == r.market_cap_rank
        rank  == IF isna(rank0) THEN I(200) ELSE rank0
        a     == PySub(I(200), rank)
    IN  IF a.k = "raise" THEN Raise ELSE scale(a, I(0), I(199))

liq_score(r) ==
    LET mc  == r.market_cap
        vol == r.total_volume
        liq_ratio == IF isna(mc) \/ EqZero(mc) THEN I(0)
                     ELSE PyDiv(IF Truthy(vol) THEN vol ELSE I(0), mc)
    IN  IF liq_ratio.k = "raise" THEN Raise
        ELSE scale(liq_ratio, R(1, 100), R(30, 100))

ath_score_lt20(r) ==
    LET ath_chg == r.ath_change_percentage
    IN  IF isna(ath_chg) THEN R(1, 2)
        ELSE LET dd == PyNeg(ath_chg)
             IN  IF dd.k = "raise" THEN Raise
                 ELSE IF PyLt(dd, I(20)) THEN R(2, 10)
                 ELSE IF PyGt(dd, I(80)) THEN R(3, 10)
                 ELSE PyAdd(R(2, 10),
                            PyDiv(PyMul(R(8, 10), PySub(dd, I(10))), I(70)))

ath_score(r) ==
    LET ath_chg == r.ath_change_percentage
    IN  IF isna(ath_chg) THEN R(1, 2)
        ELSE LET dd == PyNeg(ath_chg)
             IN  IF dd.k = "raise" THEN Raise
                 ELSE IF PyLt(dd, I(10)) THEN R(2, 10)
                 ELSE IF PyGt(dd, I(80)) THEN R(3, 10)
                 ELSE PyAdd(R(2, 10),
                            PyDiv(PyMul(R(8, 10), PySub(dd, I(10))), I(70)))

score_market(r) ==
    LET market_score_0_1 ==
            PyAdd(PyAdd(PyMul(R(4, 10), rank_score(r)),
                        PyMul(R(3, 10), liq_score(r))),
                  PyMul(R(3, 10), ath_score(r)))
    IN  PyMul(I(25), market_score_0_1)

\* the piecewise mapping of the circulation ratio (NaN falls through both
\* comparisons into the linear branch)
circ_piecewise(ratio) ==
    IF PyLt(ratio, R(3, 10)) THEN R(2, 10)
    ELSE IF PyGt(ratio, R(95, 100)) THEN R(7, 10)
    ELSE PyAdd(R(2, 10),
               PyDiv(PyMul(R(8, 10), PySub(ratio, R(3, 10))),
                     PySub(R(95, 100), R(3, 10))))

circ_score_nonpositive(r) ==
    LET circ       == r.circulating_supply
        max_supply == r.max_supply
    IN  IF isna(max_supply) \/ ~Truthy(max_supply) \/ EqZero(max_supply)
           \/ PyLe(max_supply, I(0))
        THEN R(4, 10)
        ELSE LET q     == PyDiv(PyFloat(circ), PyFloat(max_supply))
                 ratio == IF q.k = "raise" THEN R(1, 2) ELSE q
             IN  circ_piecewise(ratio)

circ_score(r) ==
    LET circ       == r.circulating_supply
        max_supply == r.max_supply
    IN  IF isna(max_supply) \/ ~Truthy(max_supply) \/ EqZero(max_supply)
        THEN R(4, 10)
        ELSE LET q     == PyDiv(PyFloat(circ), PyFloat(max_supply))
                 ratio == IF q.k = "raise" THEN R(1, 2) ELSE q
             IN  circ_piecewise(ratio)

dilution_score(r) ==
    LET mc  == r.market_cap
        fdv == r.fully_diluted_valuation
    IN  IF isna(mc) \/ EqZero(mc) \/ isna(fdv) \/ ~Truthy(fdv) THEN R(1, 2)
        ELSE IF ~IsFloat(fdv) THEN Raise           \* fdv <= 0: TypeError
        ELSE IF PyLe(fdv, I(0)) THEN R(1, 2)
        ELSE LET q       == PyDiv(PyFloat(mc), PyFloat(fdv))
                 d_ratio == IF q.k = "raise" THEN R(1, 2) ELSE q
             IN  IF PyGe(d_ratio, R(7, 10)) THEN I(1)
                 ELSE IF PyLe(d_ratio, R(3, 10)) THEN R(3, 10)
                 ELSE PyAdd(R(3, 10),
                            PyDiv(PyMul(R(7, 10), PySub(d_ratio, R(3, 10))),
                                  PySub(R(7, 10), R(3, 10))))

inflation_score == R(6, 10)

score_tokenomics(r) ==
    LET tokenomics_0_1 ==
            PyAdd(PyAdd(PyMul(R(4, 10), circ_score(r)),
                        PyMul(R(4, 10), dilution_score(r))),
                  PyMul(R(2, 10), inflation_score))
    IN  PyMul(I(25), tokenomics_0_1)

narrative_score == R(6, 10)

score_momentum_narr(r) ==
    LET p30   == r.price_change_percentage_30d_in_currency
        p7    == r.price_change_percentage_7d_in_currency
        mom30 == scale(p30, I(-20), I(60))
        mom7  == scale(p7, I(-15), I(40))
        momentum_0_1 ==
            PyAdd(PyAdd(PyMul(R(4, 10), mom30), PyMul(R(3, 10), mom7)),
                  PyMul(R(3, 10), narrative_score))
    IN  PyMul(I(20), momentum_0_1)

score_whales_deriv(r) == I(10)

dev_norm(r)  == scale(r.developer_score, I(0), I(100))
comm_norm(r) == scale(r.community_score, I(0), I(100))
sent_norm(r) == scale(r.sentiment_votes_up_percentage, I(50), I(90))

age_norm_neutral(r, now) ==
    LET years        == years_since(r.genesis_date, now)
        years_capped == IF Lt(I(10), years) THEN I(10) ELSE years
    IN  IF r.genesis_date.k # "str" THEN R(1, 2)
        ELSE scale(years_capped, I(0), I(10))

age_norm(r, now) ==
    LET years        == years_since(r.genesis_date, now)
        years_capped == IF Lt(I(10), years) THEN I(10) ELSE years
    IN  scale(years_capped, I(0), I(10))

score_personal_fundamental(r, now) ==
    LET personal_0_1 ==
            PyAdd(PyAdd(PyAdd(PyMul(R(35, 100), dev_norm(r)),
                              PyMul(R(25, 100), comm_norm(r))),
                        PyMul(R(25, 100), sent_norm(r))),
                  PyMul(R(15, 100), age_norm(r, now)))
    IN  PyMul(I(10), personal_0_1)

----------------------------------------------------------------------------
(* Inputs.  Money amounts are in units of 1e10 and supplies in units of    *)
(* 1e6: the score functions read them only through ratios and through      *)
(* comparisons with 0, so the unit does not change any score.              *)

\* the spec's end-to-end example record: rank 1, market_cap 1e12,
\* total_volume 3e10, ath_change -15, circulating 19e6, max_supply 21e6,
\* fdv 1.05e12, 7d +5, 30d +10, dev 90, community 80, sentiment 85,
\* genesis "2009-01-03"
ExampleRow ==
    [ market_cap_rank |-> I(1), market_cap |-> I(100), total_volume |-> I(3),
      ath_change_percentage |-> I(-15),
      circulating_supply |-> I(19), max_supply |-> I(21),
      fully_diluted_valuation |-> I(105),
      price_change_percentage_7d_in_currency |-> I(5),
      price_change_percentage_30d_in_currency |-> I(10),
      developer_score |-> I(90), community_score |-> I(80),
      sentiment_votes_up_percentage |-> I(85),
      genesis_date |-> Str(<<"2", "0", "0", "9", "-", "0", "1", "-", "0", "3">>) ]

\* the day of the run: date.today() = 2025-01-03
Today0 == toordinal(2025, 1, 3)

RankValues  == {NaN, NoneV, I(0), I(1), I(100), I(200), I(10000), I(-3), StrV}
CapValues   == {NaN, I(0), I(100), I(-100), StrV}
VolValues   == {NaN, NoneV, I(0), I(3), I(50), I(-3), StrV}
AthValues   == {NaN, I(-15), I(-5), I(-90), I(-50), I(0), I(10), StrV}
CircValues  == {NaN, NoneV, I(0), I(19), I(-19), I(21), I(5), StrV}
MaxValues   == {NaN, NoneV, I(0), I(21), I(-21), StrV, NumStr(0, 1)}
FdvValues   == {NaN, NoneV, I(0), I(105), I(-105), I(200), I(1000), StrV}
PctValues   == {NaN, NoneV, I(-30), I(5), I(10), I(100), StrV, NumStr(25, 2)}
FundValues  == {NaN, NoneV, I(90), I(-10), I(150), StrV}
SentValues  == {NaN, NoneV, I(85), I(40), I(95)}
GenesisValues ==
    { NoneS, NaNS,
      Str(<<"2", "0", "0", "9", "-", "0", "1", "-", "0", "3">>),
      Str(<<"2", "0", "2", "1", "-", "0", "1", "-", "0", "3">>),
      Str(<<"2", "0", "2", "0", "-", "0", "2", "-", "2", "9">>),
      Str(<<"b", "a", "d", "-", "d", "a", "t", "e">>),
      Str(<<"2", "0", "2", "1", "-", "0", "2", "-", "3", "0">>),
      Str(<<"2", "0", "2", "1", "-", "1", "3", "-", "0", "1">>),
      Str(<<"2", "0", "3", "0", "-", "0", "1", "-", "0", "1">>),
      Str(<<"2", "0", "2", "1", "-", "0", "1">>),
      Str(<<"0", "0", "0", "0", "-", "0", "1", "-", "0", "1">>),
      Str(<<>>) }

\* the rows scored: the example record with the fields one score function
\* reads replaced by every combination of adversarial values
MarketRows ==
    { [ExampleRow EXCEPT !.market_cap_rank = a, !.market_cap = b,
                         !.total_volume = c, !.ath_change_percentage = d] :
        a \in RankValues, b \in CapValues, c \in VolValues, d \in AthValues }
TokenomicsRows ==
    { [ExampleRow EXCEPT !.circulating_supply = a, !.max_supply = b,
                         !.market_cap = c, !.fully_diluted_valuation = d] :
        a \in CircValues, b \in MaxValues, c \in CapValues, d \in FdvValues }
MomentumRows ==
    { [ExampleRow EXCEPT !.price_change_percentage_30d_in_currency = a,
                         !.price_change_percentage_7d_in_currency = b] :
        a \in PctValues, b \in PctValues }
PersonalRows ==
    { [ExampleRow EXCEPT !.developer_score = a, !.community_score = b,
                         !.sentiment_votes_up_percentage = c,
                         !.genesis_date = d] :
        a \in FundValues, b \in FundValues, c \in SentValues,
        d \in GenesisValues }
ScoreRows == MarketRows \cup TokenomicsRows \cup MomentumRows \cup PersonalRows

ScaleArgs  == {NaN, NoneV, StrV, NumStr(1, 4), I(-5), I(0), R(3, 100), R(1, 2),
               I(3), I(5), I(10), I(70), I(100)}
ScaleLows  == {I(0), I(-20), I(50), R(1, 100), I(10)}
ScaleHighs == {I(0), I(10), I(90), R(3, 10), I(-20), I(199)}

SymbolTexts ==
    { <<"u", "s", "d", "t">>,
      <<"u", "s", "d", "c">>,
      <<"b", "u", "s", "d">>,
      <<"d", "a", "i">>,
      <<"t", "u", "s", "d">>,
      <<"u", "s", "d", "d">>,
      <<"u", "s", "d", "e">>,
      <<"g", "u", "s", "d">>,
      <<"u", "s", "d", "p">>,
      <<"f", "d", "u", "s", "d">>,
      <<"e", "u", "s", "d">>,
      <<"e", "u", "r", "t">>,
      <<"e", "u", "r", "o", "c">>,
      <<"s", "u", "s", "d">>,
      <<"l", "u", "s", "d">>,
      <<"f", "r", "a", "x">>,
      <<"p", "a", "i">>,
      <<"u", "s", "d", "x">>,
      <<"w", "b", "t", "c">>,
      <<"w", "e", "t", "h">>,
      <<"w", "s", "t", "e", "t", "h">>,
      <<"w", "s", "o", "l">>,
      <<"w", "a", "v", "a", "x">>,
      <<"U", "S", "D", "T">>,
      <<"U", "s", "d", "t">>,
      <<"u", "S", "d", "C">>,
      <<"D", "A", "I">>,
      <<"W", "B", "T", "C">>,
      <<"W", "s", "T", "e", "t", "h">>,
      <<"F", "R", "A", "X">>,
      <<"b", "t", "c">>,
      <<"B", "T", "C">>,
      <<"e", "t", "h">>,
      <<"u", "s", "d">>,
      <<"u", "s", "d", "t", "t">>,
      <<"t", "u", "s", "d", "t">>,
      <<"s", "t", "e", "t", "h">>,
      <<"w", "b", "t">>,
      <<"d", "a">>,
      <<"s", "o", "l">>,
      <<"n", "o", "n", "e">> }
NameTexts ==
    { <<"B", "i", "t", "c", "o", "i", "n">>,
      <<"T", "e", "t", "h", "e", "r">>,
      <<"W", "r", "a", "p", "p", "e", "d", " ", "B", "i", "t", "c", "o", "i", "n">>,
      <<"W", "R", "A", "P", "P", "E", "D", " ", "B", "I", "T", "C", "O", "I", "N">>,
      <<"w", "r", "a", "p", "p", "e", "d">>,
      <<"U", "n", "w", "r", "a", "p", "p", "e", "d">>,
      <<"W", "r", "a", "p", "p", "e", " ", "d">>,
      <<"L", "i", "d", "o", " ", "S", "t", "a", "k", "e", "d", " ", "E", "t", "h", "e", "r">>,
      <<"S", "T", "A", "K", "E", "D", " ", "E", "T", "H", "E", "R">>,
      <<"S", "t", "a", "k", "e", "d", " ", "E", "T", "H">>,
      <<"s", "t", "a", "k", "e", "d", " ", "e", "t", "h">>,
      <<"S", "t", "a", "k", "e", "d", " ", "S", "o", "l">>,
      <<"s", "t", "a", "k", "e", "d", "e", "t", "h">>,
      <<"W", "r", "a", "p">>,
      <<"D", "a", "i">> }
SymbolValues == {Str(s) : s \in SymbolTexts} \cup {NoneS}
NameValues   == {Str(s) : s \in NameTexts} \cup {NoneS}

NoOut == [market |-> Unset, tokenomics |-> Unset, momentum |-> Unset,
          whales |-> Unset, personal |-> Unset]
NoLoc == [circ_score |-> Unset, dev_norm |-> Unset, comm_norm |-> Unset,
          sent_norm |-> Unset, age_norm |-> Unset]

ScaleIdle == x = Unset /\ xmin = Unset /\ xmax = Unset /\ res = Unset
ClassIdle == sym = NoneS /\ name = NoneS /\ excl = FALSE
ScoreIdle == row = ExampleRow /\ out = NoOut /\ loc = NoLoc
LoadIdle  == /\ markets_all = <<>> /\ markets = <<>> /\ rows = <<>>
             /\ faults = <<>> /\ df = <<>> /\ prev = <<>>

scaleVars == <<x, xmin, xmax, res>>
classVars == <<sym, name, excl>>
scoreVars == <<row, out, loc>>
loadVars  == <<markets_all, markets, rows, faults, df, prev>>

----------------------------------------------------------------------------
(* SpecScale: scale(x, xmin, xmax) applied to one triple of arguments      *)

InitScale ==
    /\ pc = "scale_call"
    /\ x \in ScaleArgs /\ xmin \in ScaleLows /\ xmax \in ScaleHighs
    /\ res = Unset
    /\ ClassIdle /\ ScoreIdle /\ LoadIdle /\ today = Today0

ApplyScale ==
    /\ pc = "scale_call"
    /\ res' = scale(x, xmin, xmax)
    /\ pc' = "scale_ret"
    /\ UNCHANGED <<x, xmin, xmax, classVars, scoreVars, loadVars, today>>

NextScale == ApplyScale
SpecScale == InitScale /\ [][NextScale]_vars

----------------------------------------------------------------------------
(* SpecClass: is_stable_or_wrapped applied to one row                      *)

InitClass ==
    /\ pc = "class_call"
    /\ sym \in SymbolValues /\ name \in NameValues
    /\ excl = FALSE
    /\ ScaleIdle /\ ScoreIdle /\ LoadIdle /\ today = Today0

Classify ==
    /\ pc = "class_call"
    /\ excl' = is_stable_or_wrapped([symbol |-> sym, name |-> name])
    /\ pc' = "class_ret"
    /\ UNCHANGED <<sym, name, scaleVars, scoreVars, loadVars, today>>

NextClass == Classify
SpecClass == InitClass /\ [][NextClass]_vars

----------------------------------------------------------------------------
(* SpecScore: the five sub-score functions applied to one row, in the      *)
(* order of load_data's step 5; loc keeps the locals of score_tokenomics   *)
(* and score_personal_fundamental the claims speak of.  An exception is    *)
(* recorded as the function's outcome (Raise) and the next function is     *)
(* still applied, so each function is exercised on every row.              *)

InitScore ==
    /\ pc = "score_market"
    /\ row \in ScoreRows
    /\ out = NoOut /\ loc = NoLoc
    /\ today = Today0
    /\ ScaleIdle /\ ClassIdle /\ LoadIdle

ApplyScoreMarket ==
    /\ pc = "score_market"
    /\ out' = [out EXCEPT !.market = score_market(row)]
    /\ pc' = "score_tokenomics"
    /\ UNCHANGED <<row, loc, today, scaleVars, classVars, loadVars>>

ApplyScoreTokenomics ==
    /\ pc = "score_tokenomics"
    /\ out' = [out EXCEPT !.tokenomics = score_tokenomics(row)]
    /\ loc' = [loc EXCEPT !.circ_score = circ_score(row)]
    /\ pc' = "score_momentum_narr"
    /\ UNCHANGED <<row, today, scaleVars, classVars, loadVars>>

ApplyScoreMomentum ==
    /\ pc = "score_momentum_narr"
    /\ out' = [out EXCEPT !.momentum = score_momentum_narr(row)]
    /\ pc' = "score_whales_deriv"
    /\ UNCHANGED <<row, loc, today, scaleVars, classVars, loadVars>>

ApplyScoreWhales ==
    /\ pc = "score_whales_deriv"
    /\ out' = [out EXCEPT !.whales = score_whales_deriv(row)]
    /\ pc' = "score_personal"
    /\ UNCHANGED <<row, loc, today, scaleVars, classVars, loadVars>>

ApplyScorePersonal ==
    /\ pc = "score_personal"
    /\ out' = [out EXCEPT !.personal = score_personal_fundamental(row, today)]
    /\ loc' = [loc EXCEPT !.dev_norm = dev_norm(row),
                          !.comm_norm = comm_norm(row),
                          !.sent_norm = sent_norm(row),
                          !.age_norm = age_norm(row, today)]
    /\ pc' = "scored"
    /\ UNCHANGED <<row, today, scaleVars, classVars, loadVars>>

NextScore ==
    \/ ApplyScoreMarket
    \/ ApplyScoreTokenomics
    \/ ApplyScoreMomentum
    \/ ApplyScoreWhales
    \/ ApplyScorePersonal
SpecScore == InitScore /\ [][NextScore]_vars

----------------------------------------------------------------------------
(* DATA FROM COINGECKO and load_data                                       *)

\* the assets the market endpoint can list (numeric fields as they arrive in
\* the DataFrame: a JSON null of a numeric column is NaN)
Bitcoin ==
    [ id |-> "bitcoin", symbol |-> Str(<<"b", "t", "c">>),
      name |-> Str(<<"B", "i", "t", "c", "o", "i", "n">>),
      market_cap_rank |-> I(1), market_cap |-> I(100), total_volume |-> I(30),
      ath_change_percentage |-> I(-5),
      circulating_supply |-> I(20), max_supply |-> I(21),
      fully_diluted_valuation |-> I(105),
      price_change_percentage_7d_in_currency |-> NaN,
      price_change_percentage_30d_in_currency |-> I(20) ]
Tether ==
    [ id |-> "tether", symbol |-> Str(<<"U", "S", "D", "T">>),
      name |-> Str(<<"T", "e", "t", "h", "e", "r">>),
      market_cap_rank |-> I(3), market_cap |-> I(10), total_volume |-> I(10),
      ath_change_percentage |-> I(0),
      circulating_supply |-> I(10), max_supply |-> NaN,
      fully_diluted_valuation |-> I(10),
      price_change_percentage_7d_in_currency |-> I(0),
      price_change_percentage_30d_in_currency |-> I(0) ]
Xyz ==
    [ id |-> "xyz", symbol |-> Str(<<"X", "Y", "Z">>),
      name |-> Str(<<"X", "y", "z", " ", "T", "o", "k", "e", "n">>),
      market_cap_rank |-> NaN, market_cap |-> I(50), total_volume |-> I(0),
      ath_change_percentage |-> I(-90),
      circulating_supply |-> NaN, max_supply |-> I(21),
      fully_diluted_valuation |-> NaN,
      price_change_percentage_7d_in_currency |-> I(40),
      price_change_percentage_30d_in_currency |-> I(-20) ]
Assets == {Bitcoin, Tether, Xyz}

\* the JSON object /coins/{id} answers with; keys is the set of keys present
CoinJson(cid) ==
    CASE cid = "bitcoin" ->
            [ keys |-> {"developer_score", "community_score", "coingecko_score",
                        "sentiment_votes_up_percentage", "genesis_date"},
              developer_score |-> I(90), community_score |-> I(80),
              coingecko_score |-> I(80),
              sentiment_votes_up_percentage |-> I(70),
              genesis_date |-> Str(<<"2", "0", "0", "9", "-", "0", "1", "-", "0", "3">>) ]
      [] cid = "xyz" ->
            [ keys |-> {"developer_score", "community_score",
                        "sentiment_votes_up_percentage", "genesis_date"},
              developer_score |-> I(50), community_score |-> I(50),
              coingecko_score |-> NoneV,
              sentiment_votes_up_percentage |-> I(70),
              genesis_date |-> Str(<<"2", "0", "2", "1", "-", "0", "1", "-", "0", "3">>) ]
      [] OTHER ->
            [ keys |-> {"sentiment_votes_up_percentage", "genesis_date"},
              developer_score |-> NoneV, community_score |-> NoneV,
              coingecko_score |-> NoneV,
              sentiment_votes_up_percentage |-> NoneV,
              genesis_date |-> NoneS ]

\* what one GET /coins/{id} can do
Statuses == {"ok", "network_error", "http_error", "bad_json"}
Responses(cid) == { [status |-> s, j |-> CoinJson(cid)] : s \in Statuses }

MaxAssets == 2
MaxDays == 1
HeadN == 40

Distinct(s) == \A i, j \in 1..Len(s) : i # j => s[i].id # s[j].id
\* the lists fetch_top_markets can return
MarketLists ==
    { s \in UNION { [1..n -> Assets] : n \in 1..MaxAssets } : Distinct(s) }

\* j.get(key)
get(j, key) == IF key \in j.keys THEN j[key] ELSE IF key = "genesis_date" THEN NoneS ELSE NoneV

NullRow(cid) ==
    [ id |-> cid, developer_score |-> NoneV, community_score |-> NoneV,
      coingecko_score |-> NoneV, sentiment_votes_up_percentage |-> NoneV,
      genesis_date |-> NoneS ]

\* one iteration of the loop of fetch_fundamentals_for_ids without its
\* try/except: a failed request propagates
fetch_one_noexcept(cid, resp) ==
    IF resp.status = "ok"
    THEN [ raised |-> FALSE,
           row |-> [ id |-> cid,
                     developer_score |-> get(resp.j, "developer_score"),
                     community_score |-> get(resp.j, "community_score"),
                     coingecko_score |-> get(resp.j, "coingecko_score"),
                     sentiment_votes_up_percentage |->
                         get(resp.j, "sentiment_votes_up_percentage"),
                     genesis_date |-> get(resp.j, "genesis_date") ] ]
    ELSE [ raised |-> TRUE, row |-> NullRow(cid) ]

\* one iteration of the loop of fetch_fundamentals_for_ids: the row appended
\* for cid, and whether an exception leaves the function
fetch_one(cid, resp) ==
    IF resp.status = "ok"
    THEN [ raised |-> FALSE,
           row |-> [ id |-> cid,
                     developer_score |-> get(resp.j, "developer_score"),
                     community_score |-> get(resp.j, "community_score"),
                     coingecko_score |-> get(resp.j, "coingecko_score"),
                     sentiment_votes_up_percentage |->
                         get(resp.j, "sentiment_votes_up_percentage"),
                     genesis_date |-> get(resp.j, "genesis_date") ] ]
    ELSE [ raised |-> FALSE, row |-> NullRow(cid) ]

\* pd.DataFrame(rows): a numeric column that holds at least one number is a
\* float column, whose None entries become NaN; an all-None column keeps None
NumericCols == {"developer_score", "community_score", "coingecko_score",
                "sentiment_votes_up_percentage"}
DataFrame(rs) ==
    [ i \in 1..Len(rs) |->
        [ c \in DOMAIN rs[i] |->
            IF /\ c \in NumericCols
               /\ rs[i][c].k = "none"
               /\ \E j \in 1..Len(rs) : rs[j][c].k = "num"
            THEN NaN ELSE rs[i][c] ] ]

\* a row of markets.merge(fundamentals, on="id", how="left"), with the score
\* columns still to be assigned; scored_on is not a column: it records the
\* value date.today() had when score_personal was computed
MergedRow(m, f) ==
    [ id |-> m.id, symbol |-> m.symbol, name |-> m.name,
      market_cap_rank |-> m.market_cap_rank, market_cap |-> m.market_cap,
      total_volume |-> m.total_volume,
      ath_change_percentage |-> m.ath_change_percentage,
      circulating_supply |-> m.circulating_supply, max_supply |-> m.max_supply,
      fully_diluted_valuation |-> m.fully_diluted_valuation,
      price_change_percentage_7d_in_currency |->
          m.price_change_percentage_7d_in_currency,
      price_change_percentage_30d_in_currency |->
          m.price_change_percentage_30d_in_currency,
      developer_score |-> f.developer_score,
      community_score |-> f.community_score,
      coingecko_score |-> f.coingecko_score,
      sentiment_votes_up_percentage |-> f.sentiment_votes_up_percentage,
      genesis_date |-> f.genesis_date,
      score_market |-> Unset, score_tokenomics |-> Unset,
      score_momentum_narr |-> Unset, score_whales_deriv |-> Unset,
      score_personal |-> Unset, holder_score_100 |-> Unset,
      scored_on |-> 0 ]

\* the fundamentals of a left row without a match
NoMatch ==
    [ developer_score |-> NaN, community_score |-> NaN, coingecko_score |-> NaN,
      sentiment_votes_up_percentage |-> NaN, genesis_date |-> NaNS ]

RECURSIVE merge(_, _)
merge(ms, fs) ==
    IF ms = <<>> THEN <<>>
    ELSE LET m       == Head(ms)
             matches == SelectSeq(fs, LAMBDA f : f.id = m.id)
             joined  == IF matches = <<>> THEN <<MergedRow(m, NoMatch)>>
                        ELSE [i \in 1..Len(matches) |-> MergedRow(m, matches[i])]
         IN  joined \o merge(Tail(ms), fs)

\* sort_values("market_cap_rank"): ascending, NaN last
RankBefore(a, b) ==
    IF isna(a.market_cap_rank) THEN FALSE
    ELSE IF isna(b.market_cap_rank) THEN TRUE
    ELSE Lt(a.market_cap_rank, b.market_cap_rank)
RECURSIVE InsertByRank(_, _)
InsertByRank(r, s) ==
    IF s = <<>> THEN <<r>>
    ELSE IF RankBefore(r, Head(s)) THEN <<r>> \o s
    ELSE <<Head(s)>> \o InsertByRank(r, Tail(s))
RECURSIVE sort_values(_)
sort_values(s) ==
    IF s = <<>> THEN <<>>
    ELSE InsertByRank(s[Len(s)], sort_values(SubSeq(s, 1, Len(s) - 1)))

head(s, n) == SubSeq(s, 1, IF Len(s) < n THEN Len(s) ELSE n)

holder_score_100_nopersonal(r) ==
    PyAdd(PyAdd(PyAdd(r.score_market, r.score_tokenomics),
                r.score_momentum_narr),
          r.score_whales_deriv)

\* df["holder_score_100"] of one row: the sum of the five score columns
holder_score_100(r) ==
    PyAdd(PyAdd(PyAdd(PyAdd(r.score_market, r.score_tokenomics),
                      r.score_momentum_narr),
                r.score_whales_deriv),
          r.score_personal)

\* the five df.apply(..., axis=1) of one row
score_row(r, now) ==
    [ r EXCEPT !.score_market = score_market(r),
               !.score_tokenomics = score_tokenomics(r),
               !.score_momentum_narr = score_momentum_narr(r),
               !.score_whales_deriv = score_whales_deriv(r),
               !.score_personal = score_personal_fundamental(r, now),
               !.scored_on = now ]

apply_scores_firstrow(d, now) ==
    [ i \in 1..Len(d) |->
        LET s == [score_row(d[i], now) EXCEPT !.score_market = score_market(d[1])]
        IN  [s EXCEPT !.holder_score_100 = holder_score_100(s)] ]

\* step 5 of load_data: the score columns and their sum, row by row
apply_scores(d, now) ==
    [ i \in 1..Len(d) |->
        LET s == score_row(d[i], now)
        IN  [s EXCEPT !.holder_score_100 = holder_score_100(s)] ]

Raised(r) ==
    \/ r.score_market.k = "raise" \/ r.score_tokenomics.k = "raise"
    \/ r.score_momentum_narr.k = "raise" \/ r.score_whales_deriv.k = "raise"
    \/ r.score_personal.k = "raise"

----------------------------------------------------------------------------
(* Spec: load_data, run again whenever its cached result has expired       *)

Init ==
    /\ pc = "start"
    /\ today = Today0
    /\ LoadIdle /\ ScaleIdle /\ ClassIdle /\ ScoreIdle

pureVars == <<scaleVars, classVars, scoreVars>>

\* step 1: fetch_top_markets answers with a list, or raise_for_status /
\* the request raises and load_data ends with that exception
FetchTopMarkets ==
    /\ pc = "start"
    /\ \/ \E list \in MarketLists :
             /\ markets_all' = list
             /\ pc' = "filter"
       \/ /\ markets_all' = <<>>
          /\ pc' = "markets_raised"
    /\ UNCHANGED <<markets, rows, faults, df, prev, today, pureVars>>

\* step 3: drop stables / wrapped, sort by rank, keep the best 40
FilterTop ==
    /\ pc = "filter"
    /\ markets' = head(sort_values(
                      SelectSeq(markets_all, LAMBDA r : ~is_stable_or_wrapped(r))),
                      HeadN)
    /\ pc' = "fundamentals"
    /\ UNCHANGED <<markets_all, rows, faults, df, prev, today, pureVars>>

\* step 4, one iteration of the loop over ids; faults keeps what the request
\* for each id did
FetchFundamentals ==
    /\ pc = "fundamentals"
    /\ Len(rows) < Len(markets)
    /\ LET cid == markets[Len(rows) + 1].id
       IN  \E resp \in Responses(cid) :
               LET r == fetch_one(cid, resp)
               IN  IF r.raised
                   THEN /\ pc' = "fundamentals_raised"
                        /\ UNCHANGED <<rows, faults>>
                   ELSE /\ rows' = Append(rows, r.row)
                        /\ faults' = Append(faults, resp.status)
                        /\ pc' = pc
    /\ UNCHANGED <<markets_all, markets, df, prev, today, pureVars>>

\* step 4, after the loop: pd.DataFrame(rows) and the left merge on id; an
\* empty rows list gives a frame without an "id" column and merge raises
Merge ==
    /\ pc = "fundamentals"
    /\ Len(rows) = Len(markets)
    /\ IF rows = <<>>
       THEN /\ pc' = "merge_raised"
            /\ df' = <<>>
       ELSE /\ df' = merge(markets, DataFrame(rows))
            /\ pc' = "scores"
    /\ UNCHANGED <<markets_all, markets, rows, faults, prev, today, pureVars>>

\* step 5: the five score columns and holder_score_100
ApplyScores ==
    /\ pc = "scores"
    /\ LET scored == apply_scores(df, today)
       IN  IF \E i \in 1..Len(scored) : Raised(scored[i])
           THEN /\ pc' = "scores_raised"
                /\ df' = df
           ELSE /\ df' = scored
                /\ pc' = "done"
    /\ UNCHANGED <<markets_all, markets, rows, faults, prev, today, pureVars>>

\* the cached result expires (ttl=900) or the run ended with an exception:
\* the next script run calls load_data again; prev keeps the last frame
Rerun ==
    /\ pc \in {"done", "markets_raised", "merge_raised"}
    /\ prev' = IF pc = "done" THEN df ELSE prev
    /\ pc' = "start"
    /\ markets_all' = <<>> /\ markets' = <<>> /\ rows' = <<>>
    /\ faults' = <<>> /\ df' = <<>>
    /\ UNCHANGED <<today, pureVars>>

\* midnight passes: date.today() moves on by one day
Tick ==
    /\ today < Today0 + MaxDays
    /\ today' = today + 1
    /\ UNCHANGED <<pc, loadVars, pureVars>>

Next ==
    \/ FetchTopMarkets
    \/ FilterTop
    \/ FetchFundamentals
    \/ Merge
    \/ ApplyScores
    \/ Rerun
    \/ Tick
Spec == Init /\ [][Next]_vars


----------------------------------------------------------------------------
(* Properties                                                              *)

Missing(v) == v.k \in {"nan", "none"}
NumericOrMissing(v) == v.k \in {"num", "nan", "none"}
Within(v, lo, hi) == v.k = "num" /\ Le(lo, v) /\ Le(v, hi)
Half == R(1, 2)

\* every numeric field of r is missing or a number
RowNumeric(r) ==
    /\ NumericOrMissing(r.market_cap_rank)
    /\ NumericOrMissing(r.market_cap)
    /\ NumericOrMissing(r.total_volume)
    /\ NumericOrMissing(r.ath_change_percentage)
    /\ NumericOrMissing(r.circulating_supply)
    /\ NumericOrMissing(r.max_supply)
    /\ NumericOrMissing(r.fully_diluted_valuation)
    /\ NumericOrMissing(r.price_change_percentage_7d_in_currency)
    /\ NumericOrMissing(r.price_change_percentage_30d_in_currency)
    /\ NumericOrMissing(r.developer_score)
    /\ NumericOrMissing(r.community_score)
    /\ NumericOrMissing(r.sentiment_votes_up_percentage)

\* C2 (as claimed): on a row whose numeric fields are each missing or a
\* number, every sub-score that has been computed is a number inside its
\* documented range: market and tokenomics in [0,25], momentum and whales
\* in [0,20], personal in [0,10].
C2_SubScoreRanges ==
    RowNumeric(row) =>
        /\ out.market # Unset => Within(out.market, I(0), I(25))
        /\ out.tokenomics # Unset => Within(out.tokenomics, I(0), I(25))
        /\ out.momentum # Unset => Within(out.momentum, I(0), I(20))
        /\ out.whales # Unset => Within(out.whales, I(0), I(20))
        /\ out.personal # Unset => Within(out.personal, I(0), I(10))

AllFundamentalsMissing(r) ==
    /\ Missing(r.developer_score)
    /\ Missing(r.community_score)
    /\ Missing(r.sentiment_votes_up_percentage)
    /\ r.genesis_date.k \in {"none", "nan"}

\* C3 (as claimed): with developer_score, community_score, sentiment and
\* genesis_date all missing, score_personal_fundamental uses 0.5 for
\* dev_norm, comm_norm, sent_norm and age_norm and returns exactly 5.0.
C3_AllMissingGivesFive ==
    (pc = "scored" /\ AllFundamentalsMissing(row)) =>
        /\ loc.dev_norm = Half /\ loc.comm_norm = Half /\ loc.sent_norm = Half
        /\ loc.age_norm = Half
        /\ out.personal = I(5)

\* C3 (amended): with the four fundamentals missing, dev_norm, comm_norm
\* and sent_norm are 0.5 but age_norm is scale(0, 0, 10) = 0, and
\* score_personal_fundamental returns 10 * 0.425 = 4.25.
C3_AllMissingGivesFourAndQuarter ==
    (pc = "scored" /\ AllFundamentalsMissing(row)) =>
        /\ loc.dev_norm = Half /\ loc.comm_norm = Half /\ loc.sent_norm = Half
        /\ loc.age_norm = I(0)
        /\ out.personal = R(425, 100)

C3_Witness ==
    /\ pc = "scored" /\ AllFundamentalsMissing(row)
    /\ out.personal.k = "num"

\* the number float(x) yields for a numeric argument
ArgValue(v) == IF v.k = "numstr" THEN R(v.n, v.d) ELSE v

\* C4: scale(x, xmin, xmax) is exactly 0.5 when x is missing or non-numeric
\* or xmin = xmax; otherwise it is (x - xmin)/(xmax - xmin) clamped to
\* [0,1]; in every case the result lies in [0,1].
C4_ScaleContract ==
    pc = "scale_ret" =>
        /\ Within(res, I(0), I(1))
        /\ (x.k \in {"nan", "none", "str"} \/ xmin = xmax) => res = Half
        /\ (x.k \in {"num", "numstr"} /\ xmin # xmax) =>
              LET q == RDiv(RSub(ArgValue(x), xmin), RSub(xmax, xmin))
              IN  /\ Lt(q, I(0)) => res = I(0)
                  /\ Lt(I(1), q) => res = I(1)
                  /\ (Le(I(0), q) /\ Le(q, I(1))) => res = q

C4_Witness ==
    /\ pc = "scale_ret" /\ x.k = "num" /\ xmin # xmax
    /\ Lt(I(0), res) /\ Lt(res, I(1)) /\ res # Half

\* C5 (as claimed): no sub-score function raises; whatever subset of the
\* fields is missing or holds a non-numeric string, every computed
\* sub-score is a number.
C5_NeverRaises ==
    /\ out.market # Unset => out.market.k = "num"
    /\ out.tokenomics # Unset => out.tokenomics.k = "num"
    /\ out.momentum # Unset => out.momentum.k = "num"
    /\ out.whales # Unset => out.whales.k = "num"
    /\ out.personal # Unset => out.personal.k = "num"

ListedStablecoins ==
    { <<"u", "s", "d", "t">>,
      <<"u", "s", "d", "c">>,
      <<"b", "u", "s", "d">>,
      <<"d", "a", "i">>,
      <<"t", "u", "s", "d">>,
      <<"u", "s", "d", "d">>,
      <<"u", "s", "d", "e">>,
      <<"g", "u", "s", "d">>,
      <<"u", "s", "d", "p">>,
      <<"f", "d", "u", "s", "d">>,
      <<"e", "u", "s", "d">>,
      <<"e", "u", "r", "t">>,
      <<"e", "u", "r", "o", "c">>,
      <<"s", "u", "s", "d">>,
      <<"l", "u", "s", "d">>,
      <<"f", "r", "a", "x">>,
      <<"p", "a", "i">>,
      <<"u", "s", "d", "x">> }
ListedWrapped ==
    { <<"w", "b", "t", "c">>,
      <<"w", "e", "t", "h">>,
      <<"w", "s", "t", "e", "t", "h">>,
      <<"w", "s", "o", "l">>,
      <<"w", "a", "v", "a", "x">> }
\* a field with its text (if it is a str) in upper case, in lower case
UpperCased(v) == IF v.k = "str" THEN Str(upper(v.s)) ELSE v
LowerCased(v) == IF v.k = "str" THEN Str(lower(v.s)) ELSE v

\* C6: is_stable_or_wrapped is true exactly when the lower-cased symbol is
\* one of the 18 listed stablecoin symbols, or the lower-cased name contains
\* "wrapped", "staked ether" or "staked eth", or the lower-cased symbol is
\* one of wbtc, weth, wsteth, wsol, wavax; and its result is the same for
\* the upper-cased and the lower-cased spelling of symbol and name.
C6_ClassifierPolicy ==
    pc = "class_ret" =>
        LET s  == lower(PyStr(sym))
            nm == lower(PyStr(name))
        IN  /\ Cardinality(ListedStablecoins) = 18
            /\ excl <=> \/ s \in ListedStablecoins
                        \/ Contains(nm, W_wrapped)
                        \/ Contains(nm, W_staked_ether)
                        \/ Contains(nm, W_staked_eth)
                        \/ s \in ListedWrapped
            /\ excl = is_stable_or_wrapped(
                          [symbol |-> UpperCased(sym), name |-> UpperCased(name)])
            /\ excl = is_stable_or_wrapped(
                          [symbol |-> LowerCased(sym), name |-> LowerCased(name)])

C6_Witness ==
    /\ pc = "class_ret" /\ excl
    /\ sym.k = "str" /\ sym.s # lower(sym.s)
    /\ lower(sym.s) \in ListedStablecoins
    /\ ~Contains(lower(PyStr(name)), W_wrapped)

\* C7 (as claimed): for the example record score_market is
\* 25*(0.4*1 + 0.3*scale(0.03, 0.01, 0.30) + 0.3*0.2), about 17.4.
C7_ExampleMarketAsClaimed ==
    (row = ExampleRow /\ out.market # Unset) =>
        /\ out.market =
              RMul(I(25), RAdd(RAdd(RMul(R(4, 10), I(1)),
                                    RMul(R(3, 10),
                                         scale(R(3, 100), R(1, 100), R(30, 100)))),
                               RMul(R(3, 10), R(2, 10))))
        /\ Within(out.market, R(1735, 100), R(1745, 100))

\* C7 (amended): for the example record the drawdown is 15, which lies in
\* the linear band, so score_market is
\* 25*(0.4*1 + 0.3*scale(0.03, 0.01, 0.30) + 0.3*(0.2 + 0.8*(15-10)/70)),
\* about 12.45.
C7_ExampleMarket ==
    (row = ExampleRow /\ out.market # Unset) =>
        /\ out.market =
              RMul(I(25), RAdd(RAdd(RMul(R(4, 10), I(1)),
                                    RMul(R(3, 10),
                                         scale(R(3, 100), R(1, 100), R(30, 100)))),
                               RMul(R(3, 10),
                                    RAdd(R(2, 10),
                                         RDiv(RMul(R(8, 10), I(15 - 10)), I(70))))))
        /\ Within(out.market, R(1244, 100), R(1245, 100))

C7_Witness ==
    row = ExampleRow /\ out.market.k = "num"

\* C10 (as claimed): a max_supply that is missing, zero or negative gives
\* the neutral circulation component 0.4 whatever circulating_supply is.
C10_NonPositiveMaxIsNeutral ==
    LET m == row.max_supply
    IN  (loc.circ_score # Unset /\ (Missing(m) \/ (m.k = "num" /\ m.n <= 0))) =>
            loc.circ_score = R(4, 10)

\* C10 (amended): a max_supply that is missing or zero gives the neutral
\* circulation component 0.4 whatever circulating_supply is; a negative
\* max_supply does not: like every present non-zero max_supply it is used in
\* the ratio circ/max_supply, which for a numeric circulating_supply is
\* mapped to 0.2 below 0.3, to 0.7 above 0.95 and linearly in between.
C10_MissingOrZeroMaxIsNeutral ==
    LET m == row.max_supply
        c == row.circulating_supply
    IN  loc.circ_score # Unset =>
            /\ (Missing(m) \/ (m.k = "num" /\ m.n = 0)) =>
                   loc.circ_score = R(4, 10)
            /\ (m.k = "num" /\ m.n # 0 /\ c.k = "num") =>
                   LET ratio == RDiv(c, m)
                   IN  /\ Lt(ratio, R(3, 10)) => loc.circ_score = R(2, 10)
                       /\ Lt(R(95, 100), ratio) => loc.circ_score = R(7, 10)
                       /\ (Le(R(3, 10), ratio) /\ Le(ratio, R(95, 100))) =>
                              loc.circ_score =
                                  RAdd(R(2, 10),
                                       RDiv(RMul(R(8, 10), RSub(ratio, R(3, 10))),
                                            R(65, 100)))

C10_Witness ==
    /\ loc.circ_score = R(2, 10)
    /\ row.max_supply.k = "num" /\ row.max_supply.n < 0
    /\ row.circulating_supply.k = "num" /\ row.circulating_supply.n > 0

ScoreCols == {"score_market", "score_tokenomics", "score_momentum_narr",
              "score_whales_deriv", "score_personal"}

\* the sum of the five score columns of r as the claim states it: the exact
\* sum when all five are numbers, NaN as soon as one of them is NaN
SumOfFive(r) ==
    IF \A c \in ScoreCols : r[c].k = "num"
    THEN RAdd(r.score_market,
              RAdd(r.score_tokenomics,
                   RAdd(r.score_momentum_narr,
                        RAdd(r.score_whales_deriv, r.score_personal))))
    ELSE NaN

FrameRows(d) == {d[i] : i \in 1..Len(d)}

\* C1: every row load_data produces (the current frame and the one of the
\* previous run) has holder_score_100 equal to the sum of its own five
\* score columns, and a row carries a holder_score_100 only together with
\* its five score columns.
C1_HolderIsSum ==
    /\ \A r \in FrameRows(df) \cup FrameRows(prev) :
          r.holder_score_100 # Unset =>
              /\ \A c \in ScoreCols : r[c].k \in {"num", "nan"}
              /\ r.holder_score_100 = SumOfFive(r)
    /\ pc = "done" => \A r \in FrameRows(df) : r.holder_score_100 # Unset

C1_Witness ==
    /\ pc = "done"
    /\ \E r \in FrameRows(df) :
          r.holder_score_100.k = "num" /\ Lt(I(50), r.holder_score_100)
    /\ \E r \in FrameRows(df) : r.holder_score_100.k = "nan"

AllNull(f) ==
    /\ Missing(f.developer_score) /\ Missing(f.community_score)
    /\ Missing(f.coingecko_score) /\ Missing(f.sentiment_votes_up_percentage)
    /\ f.genesis_date.k \in {"none", "nan"}

\* C8: fetch_fundamentals_for_ids never raises; it appends one row per id,
\* in the order of the ids; the row of an id whose request failed (network
\* error, HTTP error status, bad JSON) has its five fields null; the row of
\* an id whose request succeeded holds that id's own values whatever
\* happened to the ids before it; and when load_data is done every asset,
\* failed or not, has its row with the score columns assigned, a failed one
\* with the all-null score_personal of 4.25.
C8_FetchFailuresDegrade ==
    /\ pc # "fundamentals_raised"
    /\ Len(rows) = Len(faults) /\ Len(rows) <= Len(markets)
    /\ \A i \in 1..Len(rows) :
          /\ rows[i].id = markets[i].id
          /\ faults[i] # "ok" => AllNull(rows[i])
          /\ faults[i] = "ok" =>
                LET j == CoinJson(markets[i].id)
                IN  /\ rows[i].developer_score = get(j, "developer_score")
                    /\ rows[i].community_score = get(j, "community_score")
                    /\ rows[i].coingecko_score = get(j, "coingecko_score")
                    /\ rows[i].sentiment_votes_up_percentage =
                           get(j, "sentiment_votes_up_percentage")
                    /\ rows[i].genesis_date = get(j, "genesis_date")
    /\ pc \in {"scores", "done"} =>
          /\ Len(rows) = Len(markets) /\ Len(df) = Len(markets)
          /\ \A i \in 1..Len(df) :
                /\ df[i].id = markets[i].id
                /\ faults[i] # "ok" => AllNull(df[i])
    /\ pc = "done" =>
          \A i \in 1..Len(df) :
              /\ df[i].holder_score_100 # Unset
              /\ df[i].score_personal.k = "num"
              /\ faults[i] # "ok" => df[i].score_personal = R(425, 100)

C8_Witness ==
    /\ pc = "done" /\ Len(df) = 2
    /\ faults[1] # "ok" /\ faults[2] = "ok"
    /\ df[1].score_personal = R(425, 100)
    /\ df[2].developer_score.k = "num"

ScoringFields ==
    {"market_cap_rank", "market_cap", "total_volume", "ath_change_percentage",
     "circulating_supply", "max_supply", "fully_diluted_valuation",
     "price_change_percentage_7d_in_currency",
     "price_change_percentage_30d_in_currency",
     "developer_score", "community_score", "sentiment_votes_up_percentage",
     "genesis_date"}
SameFields(a, b) == \A f \in ScoringFields : a[f] = b[f]
SameScores(a, b) ==
    /\ \A c \in ScoreCols : a[c] = b[c]
    /\ a.holder_score_100 = b.holder_score_100

\* C9 (as claimed): two scoring runs give an asset with identical record
\* fields identical scores, whatever the other assets, the order and the
\* moment of the run.
C9_SameRecordSameScores ==
    pc = "done" =>
        \A a \in FrameRows(df) : \A b \in FrameRows(df) \cup FrameRows(prev) :
            SameFields(a, b) => SameScores(a, b)

\* C9 (amended): the scores of an asset are a function of its own record
\* fields and of the date date.today() returns when score_personal is
\* computed: two runs give an asset with identical record fields identical
\* score_market, score_tokenomics, score_momentum_narr and
\* score_whales_deriv whatever the other assets, the order and the moment,
\* and identical score_personal and holder_score_100 when they happen on
\* the same date.
C9_SameRecordSameDateSameScores ==
    pc = "done" =>
        \A a \in FrameRows(df) : \A b \in FrameRows(df) \cup FrameRows(prev) :
            SameFields(a, b) =>
                /\ \A c \in ScoreCols \ {"score_personal"} : a[c] = b[c]
                /\ a.scored_on = b.scored_on => SameScores(a, b)

C9_Witness ==
    /\ pc = "done" /\ Len(df) # Len(prev)
    /\ \E i \in 1..Len(df) : \E j \in 1..Len(prev) :
          /\ i # j
          /\ SameFields(df[i], prev[j])
          /\ df[i].scored_on = prev[j].scored_on
          /\ df[i].score_personal.k = "num"
          /\ df[i].genesis_date.k = "str"


====
